---- MODULE Spec2Model ----
(***************************************************************************)
(* Naive Sumcheck interactive proof (src/src/naive_sumcheck/protocol).     *)
(*                                                                         *)
(* Field elements are the residues 0..P-1 of a small prime field standing  *)
(* for the generic `F: Field`.  A univariate polynomial (UniPoly) is the   *)
(* sorted sequence of <<degree, coefficient>> pairs with non-zero          *)
(* coefficients kept by the sparse representation.  A multivariate         *)
(* polynomial (MultiPoly) is [num_vars, terms], a term is [coeff, term]    *)
(* and a monomial (SparseTerm) is a sequence of <<var, power>> pairs       *)
(* sorted by var with power >= 1.  Option values are sequences of length   *)
(* at most one: None is <<>>, Some(x) is <<x>>.                            *)
(***************************************************************************)
EXTENDS Integers, Sequences, FiniteSets, TLC

VARIABLES
    g,      \* the MultiPoly the prover argues about and the verifier queries
    ps,     \* ProverState: [randomness, round] (its g is the variable g)
    vs,     \* VerifierState: [round, num_vars, finished, partial_sums, randomness]
    pmsg,   \* Option<ProverMsg> on its way to the verifier
    vmsg,   \* Option<VerifierMsg>: the verifier_msg of the orchestrator
    last,   \* the most recent call: [op, arg, out]
    bin,    \* a call of to_binary_vec: [i, nu, out, called]
    work    \* the fold of gen_uni_polynomial in progress:
            \* [phase, v_msg, overflow_checks, pending, partial]

vars == <<g, ps, vs, pmsg, vmsg, last, bin, work>>

(***************************************************************************)
(* Bounds of the model.                                                    *)
(***************************************************************************)
\* widest bit string handed to to_binary_vec in its own specification
MaxNu == 6
\* largest coefficient tried on each term of the polynomial shapes
MaxCoef == 2
\* largest num_vars handed to verifier_init in the verifier-only specification
MaxVerifierVars == 2
\* cap on the messages a verifier that never finishes is fed
MaxRounds == 3
\* number of workers the fold of a round is shared between
MaxWorkers == 2

(***************************************************************************)
(* Field arithmetic (external collaborator: F: Field).                     *)
(***************************************************************************)
P == 5

F == 0..(P - 1)

FAdd(a, b) == (a + b) % P

FMul(a, b) == (a * b) % P

RECURSIVE FPow(_, _)
FPow(a, k) == IF k = 0 THEN 1 ELSE FMul(a, FPow(a, k - 1))

\* From<i32> for the two values the code converts
FromInt(n) == n % P

None == <<>>

Some(x) == <<x>>

(***************************************************************************)
(* Sparse univariate polynomials (external collaborator: UniPoly).         *)
(***************************************************************************)
\* from_coefficients_vec on the vectors the code builds: empty or one pair
from_coefficients_vec(v) ==
    IF v = <<>> THEN <<>>
    ELSE IF v[1][2] = 0 THEN <<>> ELSE v

\* a merge in which the left coefficient overwrites the right one where the
\* degrees meet, in place of their sum
RECURSIVE PolyAddLeftWins(_, _)
PolyAddLeftWins(p, q) ==
    IF p = <<>> THEN q
    ELSE IF q = <<>> THEN p
    ELSE IF p[1][1] < q[1][1] THEN <<p[1]>> \o PolyAddLeftWins(Tail(p), q)
    ELSE IF p[1][1] > q[1][1] THEN <<q[1]>> \o PolyAddLeftWins(p, Tail(q))
    ELSE <<p[1]>> \o PolyAddLeftWins(Tail(p), Tail(q))

\* merge of two sorted coefficient lists, dropping sums that vanish
RECURSIVE PolyAdd(_, _)
PolyAdd(p, q) ==
    IF p = <<>> THEN q
    ELSE IF q = <<>> THEN p
    ELSE IF p[1][1] < q[1][1] THEN <<p[1]>> \o PolyAdd(Tail(p), q)
    ELSE IF p[1][1] > q[1][1] THEN <<q[1]>> \o PolyAdd(p, Tail(q))
    ELSE LET s == FAdd(p[1][2], q[1][2])
         IN  IF s = 0 THEN PolyAdd(Tail(p), Tail(q))
             ELSE << <<p[1][1], s>> >> \o PolyAdd(Tail(p), Tail(q))

RECURSIVE UniEvaluate(_, _)
UniEvaluate(p, x) ==
    IF p = <<>> THEN 0
    ELSE FAdd(FMul(p[1][2], FPow(x, p[1][1])), UniEvaluate(Tail(p), x))

UniDegree(p) == IF p = <<>> THEN 0 ELSE p[Len(p)][1]

(***************************************************************************)
(* Sparse multivariate polynomials (external collaborator: MultiPoly).     *)
(***************************************************************************)
RECURSIVE TermEvaluate(_, _)
TermEvaluate(term, point) ==
    IF term = <<>> THEN 1
    ELSE FMul(FPow(point[term[1][1] + 1], term[1][2]),
              TermEvaluate(Tail(term), point))

\* SparseTerm::degree: the sum of the powers
RECURSIVE TermDegree(_)
TermDegree(term) ==
    IF term = <<>> THEN 0 ELSE term[1][2] + TermDegree(Tail(term))

RECURSIVE TermsEvaluate(_, _)
TermsEvaluate(terms, point) ==
    IF terms = <<>> THEN 0
    ELSE FAdd(FMul(terms[1].coeff, TermEvaluate(terms[1].term, point)),
              TermsEvaluate(Tail(terms), point))

\* g.evaluate(point); the library asserts point.len() >= num_vars
MultiEvaluate(poly, point) == TermsEvaluate(poly.terms, point)

(***************************************************************************)
(* prover.rs: utility functions                                            *)
(***************************************************************************)
\* format!("{:b}", i): the binary digits of i, most significant first
RECURSIVE BinaryDigits(_)
BinaryDigits(i) ==
    IF i < 2 THEN <<i>> ELSE BinaryDigits(i \div 2) \o <<i % 2>>

\* format!("{:0>width$}", s, width = nu): left-pad with '0' up to nu chars
RECURSIVE PadLeft(_, _)
PadLeft(s, nu) == IF Len(s) >= nu THEN s ELSE PadLeft(<<0>> \o s, nu)

to_binary_vec(i, nu) ==
    LET chars == PadLeft(BinaryDigits(i), nu)
    IN  [k \in 1..Len(chars) |->
            IF chars[k] = 0 THEN FromInt(0) ELSE FromInt(1)]

(***************************************************************************)
(* prover.rs: ProverState                                                  *)
(***************************************************************************)
\* evaluate_term: the fold over the (var, power) pairs of one monomial,
\* from pair k on, carrying the running product and the fixed term
RECURSIVE EvaluateTermFrom(_, _, _, _, _, _)
EvaluateTermFrom(randomness, term, points, k, product, fixed_term) ==
    IF k > Len(term) THEN [coeff |-> product, fixed_term |-> fixed_term]
    ELSE LET var == term[k][1]
             power == term[k][2]
             j == Len(randomness)
         IN  IF var = j
             THEN EvaluateTermFrom(randomness, term, points, k + 1, product,
                                   Some(<< <<var, power>> >>))
             ELSE IF var < j
             THEN EvaluateTermFrom(randomness, term, points, k + 1,
                                   FMul(FPow(randomness[var + 1], power), product),
                                   fixed_term)
             ELSE EvaluateTermFrom(randomness, term, points, k + 1,
                                   FMul(FPow(points[var - j + 1], power), product),
                                   fixed_term)

\* evaluate_term reading the assignment from its last bit to its first
evaluate_term_reversed(randomness, term, points) ==
    EvaluateTermFrom(randomness, term,
                     [k \in 1..Len(points) |-> points[Len(points) + 1 - k]],
                     1, FromInt(1), None)

evaluate_term(randomness, term, points) ==
    EvaluateTermFrom(randomness, term, points, 1, FromInt(1), None)

\* TermContribution with the degree of the whole monomial, not of the fixed
\* variable alone
TermContributionWholeDegree(randomness, t, points) ==
    LET e == evaluate_term(randomness, t.term, points)
    IN  IF e.fixed_term = None
        THEN from_coefficients_vec(<< <<0, FMul(t.coeff, e.coeff)>> >>)
        ELSE from_coefficients_vec(
                 << <<TermDegree(t.term), FMul(t.coeff, e.coeff)>> >>)

\* the univariate contribution of one (coeff, term) of g
TermContribution(randomness, t, points) ==
    LET e == evaluate_term(randomness, t.term, points)
    IN  IF e.fixed_term = None
        THEN from_coefficients_vec(<< <<0, FMul(t.coeff, e.coeff)>> >>)
        ELSE from_coefficients_vec(
                 << <<TermDegree(e.fixed_term[1]), FMul(t.coeff, e.coeff)>> >>)

\* evaluate_gi: the fold over the terms of g, `current + sum`
RECURSIVE EvaluateGiFrom(_, _, _, _, _)
EvaluateGiFrom(poly, randomness, points, k, sum) ==
    IF k > Len(poly.terms) THEN sum
    ELSE EvaluateGiFrom(poly, randomness, points, k + 1,
             PolyAdd(TermContribution(randomness, poly.terms[k], points), sum))

evaluate_gi(poly, randomness, points) ==
    EvaluateGiFrom(poly, randomness, points, 1, from_coefficients_vec(<<>>))

\* gen_uni_polynomial after the push of r: the fold over i in 0..2^(v-1)-1,
\* for v = num_vars - len(randomness) >= 1
RECURSIVE GenUniFrom(_, _, _, _, _)
GenUniFrom(poly, randomness, v, i, sum) ==
    IF i >= 2 ^ (v - 1) THEN sum
    ELSE GenUniFrom(poly, randomness, v, i + 1,
             PolyAdd(sum, evaluate_gi(poly, randomness, to_binary_vec(i, v))))

\* gen_uni_polynomial with the range 0..2^v: the "- 1" of the exponent lost
gen_uni_polynomial_full_range(poly, randomness) ==
    LET v == poly.num_vars - Len(randomness)
    IN  GenUniFrom(poly, randomness, v + 1, 0,
                   from_coefficients_vec(<< <<0, FromInt(0)>> >>))

gen_uni_polynomial(poly, randomness) ==
    LET v == poly.num_vars - Len(randomness)
    IN  GenUniFrom(poly, randomness, v, 0,
                   from_coefficients_vec(<< <<0, FromInt(0)>> >>))

\* slow_sum_g that stops one point short of the last corner of the hypercube
slow_sum_g_short(poly) ==
    LET RECURSIVE Go(_)
        Go(i) == IF i >= 2 ^ poly.num_vars - 1 THEN 0
                 ELSE FAdd(MultiEvaluate(poly, to_binary_vec(i, poly.num_vars)),
                           Go(i + 1))
    IN  Go(0)

RECURSIVE SlowSumFrom(_, _, _)
SlowSumFrom(poly, i, n) ==
    IF i >= n THEN 0
    ELSE FAdd(MultiEvaluate(poly, to_binary_vec(i, poly.num_vars)),
              SlowSumFrom(poly, i + 1, n))

slow_sum_g(poly) == SlowSumFrom(poly, 0, 2 ^ poly.num_vars)

(***************************************************************************)
(* verifier.rs: max_degrees                                                *)
(***************************************************************************)
\* the scan of one monomial: raise degrees[var] to power where it is larger
RECURSIVE MaxDegreesTerm(_, _, _)
MaxDegreesTerm(term, k, degrees) ==
    IF k > Len(term) THEN degrees
    ELSE LET var == term[k][1]
             power == term[k][2]
         IN  MaxDegreesTerm(term, k + 1,
                 IF power > degrees[var + 1]
                 THEN [degrees EXCEPT ![var + 1] = power]
                 ELSE degrees)

RECURSIVE MaxDegreesFrom(_, _, _)
MaxDegreesFrom(poly, k, degrees) ==
    IF k > Len(poly.terms) THEN degrees
    ELSE MaxDegreesFrom(poly, k + 1,
                        MaxDegreesTerm(poly.terms[k].term, 1, degrees))

max_degrees(poly) == MaxDegreesFrom(poly, 1, [i \in 1..poly.num_vars |-> 0])

(***************************************************************************)
(* Outcomes of a call: a returned message (Msg), Ok, a Reject error value, *)
(* or the fatal path (a panic).                                            *)
(***************************************************************************)
Msg(x) == [kind |-> "Msg", reason |-> "", val |-> x]

Ok(x) == [kind |-> "Ok", reason |-> "", val |-> x]

Reject(reason) == [kind |-> "Reject", reason |-> reason, val |-> <<>>]

Fatal(reason) == [kind |-> "Fatal", reason |-> reason, val |-> <<>>]

\* the record of a call kept in `last`: the operation, its argument, its
\* outcome; before any call it is this one
NoCall == [op |-> "init", arg |-> <<>>, out |-> Msg(<<>>)]

(***************************************************************************)
(* prover.rs: IPForSumcheck::prover_init, prove_round                      *)
(***************************************************************************)
\* prover_init for a polynomial with num_vars >= 1 (it panics on 0)
prover_init(poly) == [randomness |-> <<>>, round |-> 0]

\* prove_round without the increment of round
prove_round_no_increment(poly, state, v_msg, overflow_checks) ==
    IF state.round > poly.num_vars
    THEN [state |-> state, out |-> Fatal("Prover is no longer active...")]
    ELSE IF v_msg # None /\ state.round = 0
    THEN [state |-> state, out |-> Fatal("Prover should go first...")]
    ELSE IF v_msg = None /\ state.round > 0
    THEN [state |-> state,
          out |-> Fatal("Verifier message should not be empty...")]
    ELSE LET randomness == IF v_msg # None
                           THEN Append(state.randomness, v_msg[1])
                           ELSE state.randomness
         IN  IF poly.num_vars - Len(randomness) >= 1
             THEN [state |-> [randomness |-> randomness, round |-> state.round],
                   out |-> Msg(gen_uni_polynomial(poly, randomness))]
             ELSE [state |-> [randomness |-> randomness, round |-> state.round],
                   out |-> Fatal("attempt to subtract with overflow")]

\* prove_round without the panic on a missing verifier message
prove_round_accepts_none(poly, state, v_msg, overflow_checks) ==
    IF state.round > poly.num_vars
    THEN [state |-> state, out |-> Fatal("Prover is no longer active...")]
    ELSE IF v_msg # None /\ state.round = 0
    THEN [state |-> state, out |-> Fatal("Prover should go first...")]
    ELSE LET randomness == IF v_msg # None
                           THEN Append(state.randomness, v_msg[1])
                           ELSE state.randomness
             v == poly.num_vars - Len(randomness)
         IN  IF v >= 1
             THEN [state |-> [randomness |-> randomness,
                              round |-> state.round + 1],
                   out |-> Msg(gen_uni_polynomial(poly, randomness))]
             ELSE IF overflow_checks
             THEN [state |-> [randomness |-> randomness, round |-> state.round],
                   out |-> Fatal("attempt to subtract with overflow")]
             ELSE [state |-> [randomness |-> randomness,
                              round |-> state.round + 1],
                   out |-> Msg(from_coefficients_vec(<< <<0, FromInt(0)>> >>))]

\* The call on ProverState `state` with the optional verifier message v.
\* With every variable already fixed (v = 0 below) `v as u32 - 1` overflows:
\* a build with overflow checks panics after the push, one without wraps to
\* an empty range and returns the initial (zero) polynomial.
prove_round(poly, state, v_msg, overflow_checks) ==
    IF state.round > poly.num_vars
    THEN [state |-> state, out |-> Fatal("Prover is no longer active...")]
    ELSE IF v_msg # None /\ state.round = 0
    THEN [state |-> state, out |-> Fatal("Prover should go first...")]
    ELSE IF v_msg = None /\ state.round > 0
    THEN [state |-> state,
          out |-> Fatal("Verifier message should not be empty...")]
    ELSE LET randomness == IF v_msg # None
                           THEN Append(state.randomness, v_msg[1])
                           ELSE state.randomness
             v == poly.num_vars - Len(randomness)
         IN  IF v >= 1
             THEN [state |-> [randomness |-> randomness,
                              round |-> state.round + 1],
                   out |-> Msg(gen_uni_polynomial(poly, randomness))]
             ELSE IF overflow_checks
             THEN [state |-> [randomness |-> randomness, round |-> state.round],
                   out |-> Fatal("attempt to subtract with overflow")]
             ELSE [state |-> [randomness |-> randomness,
                              round |-> state.round + 1],
                   out |-> Msg(from_coefficients_vec(<< <<0, FromInt(0)>> >>))]

(***************************************************************************)
(* verifier.rs: IPForSumcheck::verifier_init, verify_round,                *)
(* partial_verify, verify                                                  *)
(***************************************************************************)
verifier_init(num_variables) ==
    [round |-> 1, num_vars |-> num_variables, finished |-> FALSE,
     partial_sums |-> <<>>, randomness |-> <<>>]

\* verify_round that increments round also on the message that finishes
verify_round_always_increments(gi, state, r) ==
    IF state.finished
    THEN [state |-> state,
          out |-> Fatal("Incorrect verifier state: Verifier is already finished...")]
    ELSE LET pushed == [state EXCEPT !.randomness = Append(@, r),
                                     !.partial_sums = Append(@, gi)]
         IN  [state |-> IF pushed.round = pushed.num_vars
                        THEN [pushed EXCEPT !.finished = TRUE, !.round = @ + 1]
                        ELSE [pushed EXCEPT !.round = @ + 1],
              out |-> Msg(r)]

\* verify_round that compares round with num_vars before the round is counted
verify_round_finishes_late(gi, state, r) ==
    IF state.finished
    THEN [state |-> state,
          out |-> Fatal("Incorrect verifier state: Verifier is already finished...")]
    ELSE LET pushed == [state EXCEPT !.randomness = Append(@, r),
                                     !.partial_sums = Append(@, gi)]
         IN  [state |-> IF pushed.round > pushed.num_vars
                        THEN [pushed EXCEPT !.finished = TRUE]
                        ELSE [pushed EXCEPT !.round = @ + 1],
              out |-> Msg(r)]

\* the call with prover message gi, r being the field element sample_r draws
verify_round(gi, state, r) ==
    IF state.finished
    THEN [state |-> state,
          out |-> Fatal("Incorrect verifier state: Verifier is already finished...")]
    ELSE LET pushed == [state EXCEPT !.randomness = Append(@, r),
                                     !.partial_sums = Append(@, gi)]
         IN  [state |-> IF pushed.round = pushed.num_vars
                        THEN [pushed EXCEPT !.finished = TRUE]
                        ELSE [pushed EXCEPT !.round = @ + 1],
              out |-> Msg(r)]

\* RoundChecksFrom that carries g_i(1) instead of g_i(challenge_i)
RECURSIVE RoundChecksAtOne(_, _, _)
RoundChecksAtOne(state, i, expected_sum) ==
    IF i > state.num_vars
    THEN Ok([r_vec |-> state.randomness, expected_evaluation |-> expected_sum])
    ELSE LET gi == state.partial_sums[i]
             p0 == UniEvaluate(gi, FromInt(0))
             p1 == UniEvaluate(gi, FromInt(1))
         IN  IF FAdd(p0, p1) # expected_sum
             THEN Reject("Prover message is inconsistent with the claim.")
             ELSE RoundChecksAtOne(state, i + 1, p1)

\* the loop of partial_verify from round index i (1-based) on
RECURSIVE RoundChecksFrom(_, _, _)
RoundChecksFrom(state, i, expected_sum) ==
    IF i > state.num_vars
    THEN Ok([r_vec |-> state.randomness, expected_evaluation |-> expected_sum])
    ELSE LET gi == state.partial_sums[i]
             p0 == UniEvaluate(gi, FromInt(0))
             p1 == UniEvaluate(gi, FromInt(1))
         IN  IF FAdd(p0, p1) # expected_sum
             THEN Reject("Prover message is inconsistent with the claim.")
             ELSE RoundChecksFrom(state, i + 1,
                                  UniEvaluate(gi, state.randomness[i]))

\* partial_verify that starts from the first message's own sum instead of
\* the asserted sum
partial_verify_ignores_claim(state, asserted_sum) ==
    IF ~state.finished THEN Fatal("Verifier has not finished yet...")
    ELSE IF Len(state.partial_sums) # state.num_vars
    THEN Fatal("Insufficient number of rounds...")
    ELSE IF Len(state.randomness) # state.num_vars
    THEN Fatal("Insufficient random field elements...")
    ELSE RoundChecksFrom(state, 1,
             FAdd(UniEvaluate(state.partial_sums[1], 0),
                  UniEvaluate(state.partial_sums[1], 1)))

\* partial_verify without its guards, checking the rounds stored so far
partial_verify_unguarded(state, asserted_sum) ==
    RoundChecksFrom([state EXCEPT !.num_vars = Len(state.partial_sums)], 1,
                    asserted_sum)

partial_verify(state, asserted_sum) ==
    IF ~state.finished THEN Fatal("Verifier has not finished yet...")
    ELSE IF Len(state.partial_sums) # state.num_vars
    THEN Fatal("Insufficient number of rounds...")
    ELSE IF Len(state.randomness) # state.num_vars
    THEN Fatal("Insufficient random field elements...")
    ELSE RoundChecksFrom(state, 1, asserted_sum)

\* the assert! of verify: (0..num_vars).all(|i| partial_sums[i].degree() <=
\* degrees[i]); an index out of either vector panics like a failed assertion
DegreeAssertion(poly, state) ==
    LET degrees == max_degrees(poly)
    IN  \A i \in 1..state.num_vars :
            /\ i <= Len(state.partial_sums)
            /\ i <= Len(degrees)
            /\ UniDegree(state.partial_sums[i]) <= degrees[i]

\* verify without the degree assertion
verify_no_degree_assertion(poly, state, asserted_sum) ==
    LET res == partial_verify(state, asserted_sum)
    IN  IF res.kind = "Fatal" THEN res
        ELSE IF res.kind = "Ok"
        THEN IF Len(res.val.r_vec) < poly.num_vars
             THEN Fatal("Invalid evaluation domain")
             ELSE IF MultiEvaluate(poly, res.val.r_vec)
                         = res.val.expected_evaluation
             THEN Ok(<<>>)
             ELSE Reject("Verification failed.")
        ELSE Reject("Partial verification failed.")

\* verify that accepts whenever partial_verify does: the oracle query lost
verify_no_oracle(poly, state, asserted_sum) ==
    IF ~DegreeAssertion(poly, state) THEN Fatal("assertion failed")
    ELSE LET res == partial_verify(state, asserted_sum)
         IN  IF res.kind = "Fatal" THEN res
             ELSE IF res.kind = "Ok" THEN Ok(<<>>)
             ELSE Reject("Partial verification failed.")

\* verify that hands on the error of partial_verify as it is
verify_propagates(poly, state, asserted_sum) ==
    IF ~DegreeAssertion(poly, state) THEN Fatal("assertion failed")
    ELSE LET res == partial_verify(state, asserted_sum)
         IN  IF res.kind = "Fatal" THEN res
             ELSE IF res.kind = "Ok"
             THEN IF Len(res.val.r_vec) < poly.num_vars
                  THEN Fatal("Invalid evaluation domain")
                  ELSE IF MultiEvaluate(poly, res.val.r_vec)
                              = res.val.expected_evaluation
                  THEN Ok(<<>>)
                  ELSE Reject("Verification failed.")
             ELSE res

verify(poly, state, asserted_sum) ==
    IF ~DegreeAssertion(poly, state) THEN Fatal("assertion failed")
    ELSE LET res == partial_verify(state, asserted_sum)
         IN  IF res.kind = "Fatal" THEN res
             ELSE IF res.kind = "Ok"
             THEN IF Len(res.val.r_vec) < poly.num_vars
                  THEN Fatal("Invalid evaluation domain")
                  ELSE IF MultiEvaluate(poly, res.val.r_vec)
                              = res.val.expected_evaluation
                  THEN Ok(<<>>)
                  ELSE Reject("Verification failed.")
             ELSE Reject("Partial verification failed.")

(***************************************************************************)
(* Inputs: the polynomials the protocol is run on.                         *)
(***************************************************************************)
\* test.rs: g = 2*x0^3 + x0*x2 + x1*x2 (Thaler, section 4.1)
TestPolynomial ==
    [num_vars |-> 3,
     terms |-> << [coeff |-> 2, term |-> << <<0, 3>> >>],
                  [coeff |-> 1, term |-> << <<0, 1>>, <<2, 1>> >>],
                  [coeff |-> 1, term |-> << <<1, 1>>, <<2, 1>> >>] >>]

\* monomial lists whose terms get every coefficient in 0..MaxCoef
Shapes ==
    { [num_vars |-> 1, monomials |-> << << <<0, 2>> >>, <<>> >>],
      [num_vars |-> 2, monomials |-> << << <<0, 1>>, <<1, 1>> >>,
                                        << <<1, 2>> >> >>],
      [num_vars |-> 2, monomials |-> << << <<0, 2>> >>, << <<0, 2>> >> >>],
      [num_vars |-> 3, monomials |-> << << <<0, 1>>, <<1, 1>>, <<2, 2>> >>,
                                        << <<1, 1>> >> >>] }

PolysOf(shape) ==
    { [num_vars |-> shape.num_vars,
       terms |-> [k \in 1..Len(shape.monomials) |->
                     [coeff |-> c[k], term |-> shape.monomials[k]]]] :
      c \in [1..Len(shape.monomials) -> 0..MaxCoef] }

Polys == UNION {PolysOf(shape) : shape \in Shapes} \cup {TestPolynomial}

\* what a prover that does not follow the algorithm may send
CheatPolys ==
    { <<>>, << <<0, 1>> >>, << <<1, 1>> >>, << <<0, 2>>, <<3, 1>> >> }

(***************************************************************************)
(* The protocol as a state machine: the orchestrator calls the operations  *)
(* in any order.  A panic ends the run; partial_verify and verify consume  *)
(* the verifier state, which also ends it.                                 *)
(***************************************************************************)
NoBin == [i |-> 0, nu |-> 0, out |-> <<>>, called |-> FALSE]

NoWork ==
    [phase |-> "idle", v_msg |-> None, overflow_checks |-> TRUE,
     pending |-> {}, partial |-> <<>>]

Halted == last.out.kind = "Fatal" \/ last.op \in {"partial_verify", "verify"}

Init ==
    /\ g \in Polys
    /\ ps = prover_init(g)
    /\ vs = verifier_init(g.num_vars)
    /\ pmsg = None
    /\ vmsg = None
    /\ last = NoCall
    /\ bin = NoBin
    /\ work = NoWork

\* the challenges the orchestrator can hand to prove_round: the verifier's
\* last message, or any field element while the verifier has sent none
Challenges == IF vmsg = None THEN {Some(r) : r \in F} ELSE {vmsg}

ProveRound ==
    /\ ~Halted
    /\ \E v_msg \in {None} \cup Challenges, overflow_checks \in BOOLEAN :
          LET res == prove_round(g, ps, v_msg, overflow_checks)
          IN  /\ ps' = res.state
              /\ pmsg' = IF res.out.kind = "Msg" THEN Some(res.out.val) ELSE pmsg
              /\ last' = [op |-> "prove_round", arg |-> v_msg, out |-> res.out]
    /\ UNCHANGED <<g, vs, vmsg, bin, work>>

VerifyRound ==
    /\ ~Halted
    /\ pmsg # None
    /\ \E r \in F :
          LET res == verify_round(pmsg[1], vs, r)
          IN  /\ vs' = res.state
              /\ vmsg' = IF res.out.kind = "Msg" THEN Some(r) ELSE vmsg
              /\ last' = [op |-> "verify_round", arg |-> pmsg[1], out |-> res.out]
    /\ pmsg' = None
    /\ UNCHANGED <<g, ps, bin, work>>

PartialVerify ==
    /\ ~Halted
    /\ \E asserted_sum \in F :
          last' = [op |-> "partial_verify", arg |-> asserted_sum,
                   out |-> partial_verify(vs, asserted_sum)]
    /\ UNCHANGED <<g, ps, vs, pmsg, vmsg, bin, work>>

Verify ==
    /\ ~Halted
    /\ \E asserted_sum \in F :
          last' = [op |-> "verify", arg |-> asserted_sum,
                   out |-> verify(g, vs, asserted_sum)]
    /\ UNCHANGED <<g, ps, vs, pmsg, vmsg, bin, work>>

Next == ProveRound \/ VerifyRound \/ PartialVerify \/ Verify

Spec == Init /\ [][Next]_vars

(***************************************************************************)
(* The same protocol against a prover that may replace what it sends.      *)
(***************************************************************************)
\* the message in flight is swapped for another polynomial
CheatSend ==
    /\ ~Halted
    /\ pmsg # None
    /\ \E gi \in CheatPolys :
          /\ pmsg # Some(gi)
          /\ pmsg' = Some(gi)
    /\ UNCHANGED <<g, ps, vs, vmsg, last, bin, work>>

\* the polynomials the cheating prover is tried on
CheatTargets ==
    { [num_vars |-> 1,
       terms |-> << [coeff |-> 2, term |-> << <<0, 2>> >>],
                    [coeff |-> 1, term |-> <<>>] >>],
      [num_vars |-> 2,
       terms |-> << [coeff |-> 1, term |-> << <<0, 1>>, <<1, 1>> >>],
                    [coeff |-> 2, term |-> << <<1, 2>> >>] >>],
      [num_vars |-> 2,
       terms |-> << [coeff |-> 3, term |-> << <<0, 3>> >>],
                    [coeff |-> 1, term |-> << <<0, 1>>, <<1, 1>> >>] >>] }

InitCheat ==
    /\ g \in CheatTargets
    /\ ps = prover_init(g)
    /\ vs = verifier_init(g.num_vars)
    /\ pmsg = None
    /\ vmsg = None
    /\ last = NoCall
    /\ bin = NoBin
    /\ work = NoWork

NextCheat == Next \/ CheatSend

SpecCheat == InitCheat /\ [][NextCheat]_vars

(***************************************************************************)
(* The verifier alone, initialised for any num_vars (verifier_init states  *)
(* no precondition) and fed arbitrary messages.                            *)
(***************************************************************************)
InitVerifier ==
    /\ g = TestPolynomial
    /\ ps = prover_init(g)
    /\ vs \in {verifier_init(n) : n \in 0..MaxVerifierVars}
    /\ pmsg = None
    /\ vmsg = None
    /\ last = NoCall
    /\ bin = NoBin
    /\ work = NoWork

FeedVerifier ==
    /\ ~Halted
    /\ Len(vs.partial_sums) < MaxRounds
    /\ \E gi \in CheatPolys, r \in F :
          LET res == verify_round(gi, vs, r)
          IN  /\ vs' = res.state
              /\ vmsg' = IF res.out.kind = "Msg" THEN Some(r) ELSE vmsg
              /\ last' = [op |-> "verify_round", arg |-> gi, out |-> res.out]
    /\ UNCHANGED <<g, ps, pmsg, bin, work>>

SpecVerifier == InitVerifier /\ [][FeedVerifier]_vars

(***************************************************************************)
(* to_binary_vec alone, on every index of every width up to MaxNu.         *)
(***************************************************************************)
InitBin ==
    /\ g = TestPolynomial
    /\ ps = prover_init(g)
    /\ vs = verifier_init(g.num_vars)
    /\ pmsg = None
    /\ vmsg = None
    /\ last = NoCall
    /\ bin \in {[i |-> i, nu |-> nu, out |-> <<>>, called |-> FALSE] :
                   i \in 0..(2 ^ MaxNu - 1), nu \in 0..MaxNu}
    /\ bin.i < 2 ^ bin.nu
    /\ work = NoWork

ToBinaryVec ==
    /\ ~bin.called
    /\ bin' = [bin EXCEPT !.out = to_binary_vec(bin.i, bin.nu), !.called = TRUE]
    /\ UNCHANGED <<g, ps, vs, pmsg, vmsg, last, work>>

SpecBin == InitBin /\ [][ToBinaryVec]_vars

(***************************************************************************)
(* The prover alone: prove_round and slow_sum_g in any order.              *)
(***************************************************************************)
SlowSumG ==
    /\ ~Halted
    /\ last' = [op |-> "slow_sum_g", arg |-> <<>>, out |-> Ok(slow_sum_g(g))]
    /\ UNCHANGED <<g, ps, vs, pmsg, vmsg, bin, work>>

NextProver == ProveRound \/ SlowSumG

SpecProver == Init /\ [][NextProver]_vars

(***************************************************************************)
(* The alternating run of test_protocol: num_vars iterations of            *)
(* prove_round then verify_round, each returned challenge handed to the    *)
(* next prove_round.  The loop is sequential code, so it keeps stepping    *)
(* until its last iteration is done.                                       *)
(***************************************************************************)
RunProveRound ==
    /\ pmsg = None
    /\ Len(vs.partial_sums) < g.num_vars
    /\ last.out.kind # "Fatal"
    /\ \E overflow_checks \in BOOLEAN :
          LET res == prove_round(g, ps, vmsg, overflow_checks)
          IN  /\ ps' = res.state
              /\ pmsg' = IF res.out.kind = "Msg" THEN Some(res.out.val) ELSE pmsg
              /\ last' = [op |-> "prove_round", arg |-> vmsg, out |-> res.out]
    /\ UNCHANGED <<g, vs, vmsg, bin, work>>

RunVerifyRound ==
    /\ pmsg # None
    /\ last.out.kind # "Fatal"
    /\ \E r \in F :
          LET res == verify_round(pmsg[1], vs, r)
          IN  /\ vs' = res.state
              /\ vmsg' = IF res.out.kind = "Msg" THEN Some(r) ELSE vmsg
              /\ last' = [op |-> "verify_round", arg |-> pmsg[1], out |-> res.out]
    /\ pmsg' = None
    /\ UNCHANGED <<g, ps, bin, work>>

NextRun == RunProveRound \/ RunVerifyRound

SpecRun == Init /\ [][NextRun]_vars /\ WF_vars(NextRun)

(***************************************************************************)
(* One prove_round with the fold of gen_uni_polynomial and evaluate_gi     *)
(* split into its (term, assignment) contributions, accumulated by         *)
(* MaxWorkers workers in any order and any partition, the workers' partial *)
(* sums then combined pairwise in any order.                               *)
(***************************************************************************)
\* the polynomials the reduction is tried on
ReducePolys ==
    CheatTargets
      \cup { [num_vars |-> 3,
              terms |-> << [coeff |-> 1,
                            term |-> << <<0, 1>>, <<1, 1>>, <<2, 2>> >>],
                           [coeff |-> 2, term |-> << <<1, 1>> >>] >>] }

\* the work items of the round with these challenges: term k of g at
\* assignment i
WorkItems(poly, randomness) ==
    LET v == poly.num_vars - Len(randomness)
    IN  IF v >= 1 THEN (1..Len(poly.terms)) \X (0..(2 ^ (v - 1) - 1))
        ELSE {}

\* what one work item contributes
Contribution(poly, randomness, item) ==
    TermContribution(randomness, poly.terms[item[1]],
                     to_binary_vec(item[2], poly.num_vars - Len(randomness)))

InitReduce ==
    /\ g \in ReducePolys
    /\ ps = prover_init(g)
    /\ vs = verifier_init(g.num_vars)
    /\ pmsg = None
    /\ vmsg = None
    /\ last = NoCall
    /\ bin = NoBin
    /\ work = NoWork

\* prove_round up to the start of the fold: a call that fails a check, or
\* panics on the subtraction, ends there; otherwise the challenge is pushed
\* and the fold starts (over an empty range where the shift count wrapped)
StartRound ==
    /\ ~Halted
    /\ work.phase = "idle"
    /\ \E v_msg \in {None} \cup {Some(r) : r \in F}, overflow_checks \in BOOLEAN :
          LET res == prove_round(g, ps, v_msg, overflow_checks)
              pushed == IF v_msg # None THEN Append(ps.randomness, v_msg[1])
                        ELSE ps.randomness
          IN  IF res.out.kind = "Fatal"
              THEN /\ ps' = res.state
                   /\ last' = [op |-> "prove_round", arg |-> v_msg,
                               out |-> res.out]
                   /\ work' = work
              ELSE /\ ps' = [ps EXCEPT !.randomness = pushed]
                   /\ last' = last
                   /\ work' = [phase |-> "fold", v_msg |-> v_msg,
                               overflow_checks |-> overflow_checks,
                               pending |-> WorkItems(g, pushed),
                               partial |-> [w \in 1..MaxWorkers |-> Some(<<>>)]]
    /\ UNCHANGED <<g, vs, pmsg, vmsg, bin>>

\* a worker adds one pending contribution to its own partial sum
Accumulate ==
    /\ work.phase = "fold"
    /\ \E item \in work.pending, w \in 1..MaxWorkers :
          work' = [work EXCEPT
                      !.pending = @ \ {item},
                      !.partial[w] =
                          Some(PolyAdd(Contribution(g, ps.randomness, item),
                                       @[1]))]
    /\ UNCHANGED <<g, ps, vs, pmsg, vmsg, last, bin>>

\* two partial sums are combined into one
Combine ==
    /\ work.phase = "fold"
    /\ work.pending = {}
    /\ \E w1, w2 \in 1..MaxWorkers :
          /\ w1 # w2
          /\ work.partial[w1] # None
          /\ work.partial[w2] # None
          /\ work' = [work EXCEPT
                         !.partial[w1] =
                             Some(PolyAdd(work.partial[w1][1],
                                          work.partial[w2][1])),
                         !.partial[w2] = None]
    /\ UNCHANGED <<g, ps, vs, pmsg, vmsg, last, bin>>

\* the single remaining sum is the round's message; round is incremented
FinishRound ==
    /\ work.phase = "fold"
    /\ work.pending = {}
    /\ \E w \in 1..MaxWorkers :
          /\ work.partial[w] # None
          /\ \A u \in (1..MaxWorkers) \ {w} : work.partial[u] = None
          /\ pmsg' = work.partial[w]
          /\ last' = [op |-> "prove_round", arg |-> work.v_msg,
                      out |-> Msg(work.partial[w][1])]
    /\ ps' = [ps EXCEPT !.round = @ + 1]
    /\ work' = NoWork
    /\ UNCHANGED <<g, vs, vmsg, bin>>

NextReduce == StartRound \/ Accumulate \/ Combine \/ FinishRound

SpecReduce == InitReduce /\ [][NextReduce]_vars

(***************************************************************************)
(* The verifier against an arbitrary prover: each message is any           *)
(* polynomial within the degree bound of its round, chosen knowing the     *)
(* challenges so far.                                                      *)
(***************************************************************************)
\* every univariate polynomial of degree at most d
BoundedPolys(d) ==
    { from_coefficients_vec([k \in 1..(d + 1) |-> <<k - 1, c[k]>>]) :
          c \in [1..(d + 1) -> F] }

\* the polynomials the arbitrary prover is tried on
SoundTargets ==
    { [num_vars |-> 1,
       terms |-> << [coeff |-> 3, term |-> << <<0, 1>> >>],
                    [coeff |-> 1, term |-> <<>>] >>],
      [num_vars |-> 1,
       terms |-> << [coeff |-> 2, term |-> << <<0, 2>> >>],
                    [coeff |-> 1, term |-> <<>>] >>],
      [num_vars |-> 2,
       terms |-> << [coeff |-> 1, term |-> << <<0, 1>>, <<1, 1>> >>],
                    [coeff |-> 2, term |-> << <<1, 1>> >>] >>],
      [num_vars |-> 2,
       terms |-> << [coeff |-> 2, term |-> << <<0, 1>>, <<1, 1>> >>],
                    [coeff |-> 1, term |-> << <<0, 1>> >>],
                    [coeff |-> 4, term |-> <<>>] >>] }

InitSound ==
    /\ g \in SoundTargets
    /\ ps = prover_init(g)
    /\ vs = verifier_init(g.num_vars)
    /\ pmsg = None
    /\ vmsg = None
    /\ last = NoCall
    /\ bin = NoBin
    /\ work = NoWork

AdversarySend ==
    /\ ~Halted
    /\ pmsg = None
    /\ ~vs.finished
    /\ \E gi \in BoundedPolys(max_degrees(g)[Len(vs.partial_sums) + 1]) :
          pmsg' = Some(gi)
    /\ UNCHANGED <<g, ps, vs, vmsg, last, bin, work>>

NextSound == AdversarySend \/ VerifyRound \/ Verify

SpecSound == InitSound /\ [][NextSound]_vars

(***************************************************************************)
(* Properties                                                              *)
(***************************************************************************)
\* the stored messages are those the prover's algorithm produces for g and
\* the challenges sampled before each of them
HonestTranscript ==
    \A i \in 1..Len(vs.partial_sums) :
        vs.partial_sums[i]
            = gen_uni_polynomial(g, SubSeq(vs.randomness, 1, i - 1))

\* C1 (completeness): after the honest run on g (num_vars >= 1), verify with
\* the true hypercube sum of g returns Ok(()), whatever challenges the
\* verifier sampled.
C1_Completeness ==
    (/\ last.op = "verify"
     /\ vs.finished
     /\ HonestTranscript
     /\ last.arg = slow_sum_g(g))
        => last.out = Ok(<<>>)

C1_Witness ==
    /\ last.op = "verify"
    /\ vs.finished
    /\ HonestTranscript
    /\ g = TestPolynomial
    /\ vs.randomness = <<2, 3, 4>>
    /\ last.arg = slow_sum_g(g)
    /\ last.arg = 12 % P
    /\ last.out = Ok(<<>>)

\* C8 (degree bound): the polynomial prove_round returns in round i of
\* 1..num_vars has degree at most the largest exponent of variable i-1 in g as
\* max_degrees computes it, so the degree assertion of verify passes on an
\* honest transcript.
C8_DegreeBound ==
    /\ (/\ last.op = "prove_round"
        /\ last.out.kind = "Msg"
        /\ ps.round \in 1..g.num_vars)
           => UniDegree(last.out.val) <= max_degrees(g)[ps.round]
    /\ (vs.finished /\ HonestTranscript) => DegreeAssertion(g, vs)

C8_Witness ==
    /\ last.op = "prove_round"
    /\ last.out.kind = "Msg"
    /\ g = TestPolynomial
    /\ ps.round = 1
    /\ UniDegree(last.out.val) = 3
    /\ max_degrees(g) = <<3, 1, 1>>

\* C10 (wrong claim against the honest prover): with an honest transcript
\* and an asserted sum different from the true sum of g, verify returns a
\* Reject value for every choice of challenges, the first round check
\* g_1(0) + g_1(1) = asserted_sum being the one that fails.
C10_WrongClaimRejected ==
    (/\ last.op = "verify"
     /\ vs.finished
     /\ HonestTranscript
     /\ last.arg # slow_sum_g(g))
        => /\ last.out.kind = "Reject"
           /\ FAdd(UniEvaluate(vs.partial_sums[1], 0),
                   UniEvaluate(vs.partial_sums[1], 1)) # last.arg

C10_Witness ==
    /\ last.op = "verify"
    /\ vs.finished
    /\ HonestTranscript
    /\ g = TestPolynomial
    /\ slow_sum_g(g) = 12 % P
    /\ last.arg = 13 % P
    /\ last.out.kind = "Reject"

\* expected_i of the round consistency check for asserted sum s:
\* expected_1 = s, expected_{i+1} = g_i(challenge_i)
Expected(i, s) ==
    IF i = 1 THEN s
    ELSE UniEvaluate(vs.partial_sums[i - 1], vs.randomness[i - 1])

\* round i fails: g_i(0) + g_i(1) # expected_i
RoundFails(i, s) ==
    FAdd(UniEvaluate(vs.partial_sums[i], 0), UniEvaluate(vs.partial_sums[i], 1))
        # Expected(i, s)

SomeRoundFails(s) == \E i \in 1..vs.num_vars : RoundFails(i, s)

\* the largest exponent variable var takes over the terms of g, 0 if absent
MaxExponent(var) ==
    LET occurrences ==
            { <<k, e>> \in (1..Len(g.terms)) \X (1..g.num_vars) :
                  e <= Len(g.terms[k].term) /\ g.terms[k].term[e][1] = var }
        exps == {0} \cup { g.terms[o[1]].term[o[2]][2] : o \in occurrences }
    IN  CHOOSE m \in exps : \A x \in exps : x <= m

\* the degree bound on the stored polynomials: degree(g_i) is at most the
\* largest exponent of variable i-1 over the terms of g
DegreeBound ==
    \A i \in 1..vs.num_vars :
        UniDegree(vs.partial_sums[i]) <= MaxExponent(i - 1)

\* C2 (round consistency check): on a finished state, whatever polynomials
\* are stored, partial_verify returns Reject("Prover message is inconsistent
\* with the claim.") iff some round i has g_i(0) + g_i(1) # expected_i, and
\* otherwise Ok with r_vec the stored challenges and expected_evaluation
\* g_n(challenge_n).
C2_RoundConsistency ==
    (last.op = "partial_verify" /\ vs.finished)
        => IF SomeRoundFails(last.arg)
           THEN last.out
                    = Reject("Prover message is inconsistent with the claim.")
           ELSE /\ last.out.kind = "Ok"
                /\ last.out.val.r_vec = vs.randomness
                /\ Len(last.out.val.r_vec) = vs.num_vars
                /\ last.out.val.expected_evaluation
                       = UniEvaluate(vs.partial_sums[vs.num_vars],
                                     vs.randomness[vs.num_vars])

C2_Witness ==
    /\ last.op = "partial_verify"
    /\ vs.finished
    /\ vs.num_vars = 2
    /\ ~HonestTranscript
    /\ ~RoundFails(1, last.arg)
    /\ vs.randomness[1] \notin {0, 1}
    /\ last.out.kind = "Ok"

\* C3 (final oracle check): on a finished state whose stored polynomials
\* satisfy the degree bound, verify returns Ok(()) iff every round check
\* passes and g at the challenge vector equals g_n(challenge_n); when the
\* round checks pass and the oracle value differs it returns
\* Reject("Verification failed.").
C3_OracleCheck ==
    (last.op = "verify" /\ vs.finished /\ DegreeBound)
        => LET oracle == MultiEvaluate(g, vs.randomness)
               expected == UniEvaluate(vs.partial_sums[vs.num_vars],
                                       vs.randomness[vs.num_vars])
           IN  /\ last.out = Ok(<<>>)
                     <=> (~SomeRoundFails(last.arg) /\ oracle = expected)
               /\ (~SomeRoundFails(last.arg) /\ oracle # expected)
                     => last.out = Reject("Verification failed.")

C3_Witness ==
    /\ last.op = "verify"
    /\ vs.finished
    /\ DegreeBound
    /\ ~SomeRoundFails(last.arg)
    /\ MultiEvaluate(g, vs.randomness)
           # UniEvaluate(vs.partial_sums[vs.num_vars], vs.randomness[vs.num_vars])
    /\ last.out = Reject("Verification failed.")

\* C4 as stated: when partial_verify rejects a finished state, verify
\* returns that rejection unchanged, with the reason partial_verify gave.
C4_ReasonPropagated ==
    (last.op = "verify" /\ vs.finished /\ SomeRoundFails(last.arg))
        => last.out = Reject("Prover message is inconsistent with the claim.")

\* C4 (amended): when partial_verify rejects a finished state whose stored
\* polynomials pass the degree assertion, verify returns a Reject value, never
\* Ok and never the fatal path, and its reason is "Partial verification
\* failed.", not the reason partial_verify gave.
C4_RejectionReplaced ==
    (last.op = "verify" /\ vs.finished /\ DegreeBound
        /\ SomeRoundFails(last.arg))
        => last.out = Reject("Partial verification failed.")

C4_Witness ==
    /\ last.op = "verify"
    /\ vs.finished
    /\ DegreeBound
    /\ ~RoundFails(1, last.arg)
    /\ SomeRoundFails(last.arg)
    /\ partial_verify(vs, last.arg)
           = Reject("Prover message is inconsistent with the claim.")
    /\ last.out = Reject("Partial verification failed.")

\* C6 (finalizing early): with fewer than num_vars rounds recorded (finished
\* is false), partial_verify and verify both take the fatal path, whatever the
\* asserted sum and the polynomials stored so far.
C6_EarlyFinalizeFatal ==
    (last.op \in {"partial_verify", "verify"}
        /\ (Len(vs.partial_sums) < vs.num_vars \/ ~vs.finished))
        => last.out.kind = "Fatal"

C6_Witness ==
    /\ last.op = "partial_verify"
    /\ vs.num_vars = 2
    /\ Len(vs.partial_sums) = 1
    /\ ~vs.finished
    /\ ~RoundFails(1, last.arg)
    /\ last.out = Fatal("Verifier has not finished yet...")

\* C5 (prover call order): a prove_round call given a challenge at round 0,
\* or given none at a round > 0, takes the fatal path, returns no message and
\* leaves the ProverState's randomness and round as they were; so a call with
\* no challenge right after a call that returned a message is fatal.
C5_CallOrder ==
    [][ last'.op = "prove_round"
          => /\ ((ps.round = 0 /\ last'.arg # None)
                    \/ (ps.round > 0 /\ last'.arg = None))
                   => /\ last'.out.kind = "Fatal"
                      /\ ps' = ps
                      /\ pmsg' = pmsg
             /\ (last.op = "prove_round" /\ last.out.kind = "Msg"
                    /\ last'.arg = None)
                   => last'.out.kind = "Fatal" ]_vars

C5_Witness ==
    /\ last.op = "prove_round"
    /\ last.arg = None
    /\ ps.round = 1
    /\ pmsg # None
    /\ last.out = Fatal("Verifier message should not be empty...")

\* C7 as stated: for every num_vars verifier_init accepts, 0 included, no
\* reachable verifier state records more than num_vars partial sums or
\* challenges, and finished is set once num_vars messages are processed.
C7_RoundLimit ==
    /\ Len(vs.partial_sums) <= vs.num_vars
    /\ Len(vs.randomness) <= vs.num_vars
    /\ Len(vs.partial_sums) >= 1
          => (vs.finished <=> Len(vs.partial_sums) = vs.num_vars)

\* big-endian decoding of a sequence of bits
RECURSIVE DecodeBigEndian(_)
DecodeBigEndian(bits) ==
    IF bits = <<>> THEN 0
    ELSE 2 * DecodeBigEndian(SubSeq(bits, 1, Len(bits) - 1)) + bits[Len(bits)]

\* C9 as stated: for all nu >= 0 and 0 <= i < 2^nu, to_binary_vec(i, nu) is a
\* sequence of exactly nu elements, each 0 or 1, whose big-endian decoding
\* is i.
C9_BinaryVec ==
    bin.called
        => /\ Len(bin.out) = bin.nu
           /\ \A k \in 1..Len(bin.out) : bin.out[k] \in {0, 1}
           /\ DecodeBigEndian(bin.out) = bin.i

\* the sum of poly over every boolean completion of the point, each
\* completion taken once
RECURSIVE HypercubeSum(_, _)
HypercubeSum(poly, point) ==
    IF Len(point) >= poly.num_vars THEN MultiEvaluate(poly, point)
    ELSE FAdd(HypercubeSum(poly, Append(point, FromInt(0))),
              HypercubeSum(poly, Append(point, FromInt(1))))

\* p(0) + p(1)
SumAtZeroOne(p) == FAdd(UniEvaluate(p, FromInt(0)), UniEvaluate(p, FromInt(1)))

\* C12 (round polynomial correctness): the polynomial p_j returned by the
\* prove_round call that leaves j < num_vars challenges accumulated agrees at
\* every field element x with the sum of g(r_0..r_{j-1}, x, b) over all
\* boolean b, and its degree is at most the largest exponent of variable j
\* (below the field size, so agreement at every x is equality of
\* polynomials); p_0(0) + p_0(1) is the hypercube sum, p_j(0) + p_j(1) =
\* p_{j-1}(r_{j-1}), and the last polynomial is g(r_0..r_{n-2}, X).
C12_RoundPolynomial ==
    (/\ last.op = "prove_round"
     /\ last.out.kind = "Msg"
     /\ Len(ps.randomness) < g.num_vars)
        => LET p == last.out.val
               r == ps.randomness
               j == Len(r)
           IN  /\ \A x \in F : UniEvaluate(p, x) = HypercubeSum(g, r \o <<x>>)
               /\ UniDegree(p) <= MaxExponent(j)
               /\ UniDegree(p) < P
               /\ j = 0 => SumAtZeroOne(p) = HypercubeSum(g, <<>>)
               /\ j > 0 => SumAtZeroOne(p)
                             = UniEvaluate(
                                   gen_uni_polynomial(g, SubSeq(r, 1, j - 1)),
                                   r[j])
               /\ j = g.num_vars - 1
                     => \A x \in F : UniEvaluate(p, x)
                                        = MultiEvaluate(g, r \o <<x>>)

C12_Witness ==
    /\ last.op = "prove_round"
    /\ last.out.kind = "Msg"
    /\ g.num_vars = 3
    /\ Len(ps.randomness) = 1
    /\ ps.randomness[1] = 2
    /\ UniDegree(last.out.val) = 1
    /\ SumAtZeroOne(last.out.val) # 0

\* sum of the maximum exponents of the variables of poly
RECURSIVE SumOfMaxDegrees(_, _)
SumOfMaxDegrees(poly, i) ==
    IF i > poly.num_vars THEN 0
    ELSE max_degrees(poly)[i] + SumOfMaxDegrees(poly, i + 1)

\* the largest number of challenge completions of the verifier state on
\* which verify returns Ok for the asserted sum, over every way of choosing
\* each remaining message within its degree bound after seeing the
\* challenges before it
RECURSIVE MaxAccepting(_, _, _)
MaxAccepting(poly, state, asserted_sum) ==
    IF state.finished
    THEN IF verify(poly, state, asserted_sum).kind = "Ok" THEN 1 ELSE 0
    ELSE LET RECURSIVE OverChallenges(_, _)
             OverChallenges(gi, r) ==
                 IF r >= P THEN 0
                 ELSE MaxAccepting(poly, verify_round(gi, state, r).state,
                                   asserted_sum)
                        + OverChallenges(gi, r + 1)
             counts == { OverChallenges(gi, 0) :
                           gi \in BoundedPolys(
                                      max_degrees(poly)[Len(state.partial_sums) + 1]) }
         IN  CHOOSE c \in counts : \A d \in counts : d <= c

C13_RoundBound ==
    [][ (last'.op = "prove_round" /\ ps.round = g.num_vars)
          => /\ last'.out = Fatal("Prover is no longer active...")
             /\ ps' = ps
             /\ pmsg' = pmsg ]_vars

\* C14 as stated: between prove_round calls len(randomness) = round.
C14_LenEqualsRound == Len(ps.randomness) = ps.round

\* C14 (amended): in the ProverState left by prover_init or by a prove_round
\* call that returned a message, len(randomness) = round - 1 when round >= 1
\* and 0 when round = 0: the first round takes no challenge.
C14_LenIsRoundMinusOne ==
    ~(last.op = "prove_round" /\ last.out.kind = "Fatal")
        => Len(ps.randomness) = IF ps.round = 0 THEN 0 ELSE ps.round - 1

C14_Witness ==
    /\ last.op = "prove_round"
    /\ last.out.kind = "Msg"
    /\ ps.round = 3
    /\ Len(ps.randomness) = 2

\* C15 (degree violation is fatal and checked first): on a finished state
\* where some stored g_i has degree above the largest exponent of variable
\* i-1 in g, verify takes the fatal path whatever the round checks and the
\* oracle check would give; partial_verify makes no degree check and returns
\* Ok or Reject there.
C15_DegreeViolationFatal ==
    (vs.finished /\ ~DegreeBound)
        => /\ last.op = "verify" => last.out.kind = "Fatal"
           /\ last.op = "partial_verify" => last.out.kind \in {"Ok", "Reject"}

C15_Witness ==
    /\ last.op = "verify"
    /\ vs.finished
    /\ ~DegreeBound
    /\ ~SomeRoundFails(last.arg)
    /\ MultiEvaluate(g, vs.randomness)
           = UniEvaluate(vs.partial_sums[vs.num_vars], vs.randomness[vs.num_vars])
    /\ last.out.kind = "Fatal"

\* C16 (effect of verify_round): a call on an unfinished state is not fatal
\* whatever polynomial it is given; it appends one challenge to randomness
\* and the received polynomial to partial_sums, leaves the earlier entries,
\* either sets finished or adds one to round but not both, and returns the
\* challenge it stored.
C16_VerifyRoundEffect ==
    [][ (pmsg # None /\ pmsg' = None /\ ~vs.finished)
          => /\ last'.op = "verify_round"
             /\ last'.out.kind = "Msg"
             /\ Len(vs'.randomness) = Len(vs.randomness) + 1
             /\ SubSeq(vs'.randomness, 1, Len(vs.randomness)) = vs.randomness
             /\ vs'.partial_sums = Append(vs.partial_sums, pmsg[1])
             /\ Len(vs'.partial_sums) = Len(vs'.randomness)
             /\ last'.out.val = vs'.randomness[Len(vs'.randomness)]
             /\ vmsg' = Some(last'.out.val)
             /\ vs'.num_vars = vs.num_vars
             /\ \/ vs'.finished /\ vs'.round = vs.round
                \/ ~vs'.finished /\ vs'.round = vs.round + 1 ]_vars

C16_Witness ==
    /\ last.op = "verify_round"
    /\ last.out.kind = "Msg"
    /\ vs.finished
    /\ vs.num_vars = 2
    /\ vs.round = 2
    /\ ~HonestTranscript
    /\ ~DegreeBound

\* C19 (verifier history invariant): for num_vars >= 1, every verifier state
\* reached by verify_round calls has len(partial_sums) = len(randomness),
\* 1 <= round <= num_vars, and finished iff both histories have length
\* num_vars; so partial_verify never takes its "Insufficient ..." branches.
C19_VerifierHistory ==
    vs.num_vars >= 1
        => /\ Len(vs.partial_sums) = Len(vs.randomness)
           /\ vs.round \in 1..vs.num_vars
           /\ vs.finished <=> (/\ Len(vs.partial_sums) = vs.num_vars
                               /\ Len(vs.randomness) = vs.num_vars)
           /\ last.op = "partial_verify"
                 => last.out.reason
                        \notin {"Insufficient number of rounds...",
                                "Insufficient random field elements..."}

C19_Witness ==
    /\ last.op = "partial_verify"
    /\ vs.num_vars = 2
    /\ vs.finished
    /\ vs.round = 2
    /\ Len(vs.partial_sums) = 2
    /\ last.out.kind = "Reject"

\* C17 (slow_sum_g): the call returns the sum of g over the 2^n points of
\* the boolean hypercube, each once, leaves the ProverState as it was, and its
\* value is g_1(0) + g_1(1) for the first-round polynomial g_1, both the one
\* gen_uni_polynomial computes and the one a preceding first prove_round
\* returned.
C17_SlowSumG ==
    [][ last'.op = "slow_sum_g"
          => /\ ps' = ps
             /\ g' = g
             /\ pmsg' = pmsg
             /\ last'.out = Ok(HypercubeSum(g, <<>>))
             /\ last'.out.val = SumAtZeroOne(gen_uni_polynomial(g, <<>>))
             /\ (last.op = "prove_round" /\ last.out.kind = "Msg" /\ ps.round = 1)
                   => last'.out.val = SumAtZeroOne(last.out.val) ]_vars

C17_Witness ==
    /\ last.op = "slow_sum_g"
    /\ g.num_vars = 3
    /\ ps.round = 2
    /\ pmsg # None
    /\ last.out.val # 0

\* the ProverState prove_round was called on, seen from inside its fold
FoldEntryState ==
    [randomness |-> IF work.v_msg = None THEN ps.randomness
                    ELSE SubSeq(ps.randomness, 1, Len(ps.randomness) - 1),
     round |-> ps.round]

\* C18 (order independence of the round reduction): whatever the order and
\* the partition in which the (term, assignment) contributions are
\* accumulated and the partial sums combined, the round ends with the
\* message and the state the sequential prove_round gives; while the fold
\* runs, the work items write nothing but the partial sums: the polynomial,
\* the challenge history, the round counter and the message slots stay.
C18_OrderIndependence ==
    [][ /\ (work.phase = "fold" /\ work'.phase = "fold")
              => /\ UNCHANGED <<g, ps, vs, pmsg, vmsg, last>>
                 /\ work'.v_msg = work.v_msg
        /\ (work.phase = "fold" /\ work'.phase = "idle")
              => /\ pmsg' = Some(last'.out.val)
                 /\ [state |-> ps', out |-> last'.out]
                        = prove_round(g, FoldEntryState, work.v_msg,
                                      work.overflow_checks)
                 /\ g' = g ]_vars

C18_Witness ==
    /\ work.phase = "fold"
    /\ work.pending = {}
    /\ g.num_vars = 3
    /\ Len(ps.randomness) = 1
    /\ work.partial[1] # None
    /\ work.partial[2] # None
    /\ work.partial[1] # Some(<<>>)
    /\ work.partial[2] # Some(<<>>)
    /\ work.partial[1] # work.partial[2]

\* the agreement of the two transcripts after k completed iterations
TranscriptAgreement ==
    LET k == Len(vs.partial_sums)
    IN  (pmsg = None /\ k >= 1)
            => /\ ps.randomness = SubSeq(vs.randomness, 1, k - 1)
               /\ ps.round = k
               /\ Len(vs.randomness) = k
               /\ vmsg = Some(vs.randomness[k])
               /\ \A i \in 1..k :
                     vs.partial_sums[i]
                        = gen_uni_polynomial(g, SubSeq(vs.randomness, 1, i - 1))

\* C20 (transcript agreement in the alternating run): after k completed
\* iterations the prover's randomness is the first k-1 verifier challenges in
\* order, prover.round = k = len(partial_sums), the verifier's k-th stored
\* polynomial is the prover's k-th message, the prover never holds more than
\* num_vars - 1 challenges, no call is fatal, the verifier is finished
\* exactly when num_vars iterations are done, and the run gets there.
C20_TranscriptAgreement ==
    /\ [](/\ TranscriptAgreement
          /\ last.out.kind # "Fatal"
          /\ Len(ps.randomness) <= g.num_vars - 1
          /\ vs.finished <=> Len(vs.partial_sums) = g.num_vars)
    /\ [][ (pmsg # None /\ pmsg' = None)
             => /\ last = [op |-> "prove_round", arg |-> vmsg,
                           out |-> Msg(pmsg[1])]
                /\ vs'.partial_sums = Append(vs.partial_sums, pmsg[1]) ]_vars
    /\ <>[](/\ vs.finished
            /\ pmsg = None
            /\ Len(vs.partial_sums) = g.num_vars
            /\ ps.round = g.num_vars)

C20_Witness ==
    /\ vs.finished
    /\ pmsg = None
    /\ g.num_vars = 3
    /\ ps.round = 3
    /\ ps.randomness = <<1, 2>>
    /\ vs.randomness = <<1, 2, 3>>
    /\ last.op = "verify_round"

====
